---- MODULE Spec2Model ----
(***************************************************************************)
(* Model of pc-interface-shared (src/src/lib.rs): SerialInterface::connect, *)
(* StateCommon and its get_port, and send_cmd / send_payload.              *)
(*                                                                         *)
(* Strings are sequences of one-character strings, so that to_lowercase    *)
(* and contains are computed and not assumed.  An Option is a sequence of  *)
(* length 0 (None) or 1 (Some).                                            *)
(***************************************************************************)
EXTENDS Integers, Sequences, FiniteSets, TLC

VARIABLES
    connection_status,  \* StateCommon.connection_status
    serial_port,        \* StateCommon.interface.serial_port : Option<Port>
    connection_type,    \* StateCommon.interface.connection_type
    last_query,         \* StateCommon.last_query
    last_response,      \* StateCommon.last_response
    now,                \* the monotonic clock read by Instant::now()
    n_enum,             \* calls of serialport::available_ports so far
    n_open,             \* calls of SerialPortBuilder::open so far
    op                  \* the last operation: its inputs, its effects, its result

vars == <<connection_status, serial_port, connection_type, last_query,
          last_response, now, n_enum, n_open, op>>

(***************************************************************************)
(* Bounds of the model.                                                    *)
(***************************************************************************)
\* Largest of the small payload sizes tried in SpecSend.
MaxPayload == 2
\* Longest enumeration handed to connect in SpecConnect.
MaxPorts == 2
\* Number of operations in one behaviour of Spec.
MaxSteps == 3

(***************************************************************************)
(* Option and string helpers.                                              *)
(***************************************************************************)
None == <<>>

Some(x) == <<x>>

is_some(o) == Len(o) = 1

unwrap(o) == o[1]

UpperCase == <<"A","B","C","D","E","F","G","H","I","J","K","L","M",
               "N","O","P","Q","R","S","T","U","V","W","X","Y","Z">>

LowerCase == <<"a","b","c","d","e","f","g","h","i","j","k","l","m",
               "n","o","p","q","r","s","t","u","v","w","x","y","z">>

\* char::to_lowercase on the characters the model uses.
lower_char(c) ==
    IF \E k \in 1..Len(UpperCase) : UpperCase[k] = c
    THEN LowerCase[CHOOSE k \in 1..Len(UpperCase) : UpperCase[k] = c]
    ELSE c

\* str::to_lowercase
to_lowercase(s) == [i \in 1..Len(s) |-> lower_char(s[i])]

\* str::contains
contains(s, pat) ==
    \E i \in 0..(Len(s) - Len(pat)) : SubSeq(s, i + 1, i + Len(pat)) = pat

(***************************************************************************)
(* Constants of lib.rs.                                                    *)
(***************************************************************************)
FC_SERIAL_NUMBER == <<"A","N">>

SLCAN_PRODUCT_KEYWORD == <<"s","l","c","a","n">>

AIRPORT_KEYWORD == <<"w","c","h">>

BAUD == 115200

BAUD_AIRPORT == 9600

TIMEOUT_MILIS == 10

\* impl Default for ConnectionStatus
ConnectionStatus_default == "NotConnected"

\* impl Default for ConnectionType
ConnectionType_default == "Usb"

\* #[derive(Default)] SerialInterface
SerialInterface_default ==
    [serial_port |-> None, connection_type |-> ConnectionType_default]

(***************************************************************************)
(* The serial transport as connect sees it.                                *)
(***************************************************************************)
\* serialport::SerialPortInfo of a USB port; port_name is its place in the list.
UsbPort(sn, product, man) ==
    [port_type |-> "UsbPort", serial_number |-> sn, product |-> product,
     manufacturer |-> man]

\* a port of another SerialPortType
OtherPort == [port_type |-> "Unknown"]

SerialNumbers == {None, Some(<<"A","N">>), Some(<<"A","X">>)}

Products == {None, Some(<<"S","L","C","A","N","-","A","d","a","p","t","e","r">>),
             Some(<<"G","P","S">>)}

Manufacturers == {None, Some(<<"W","C","H",".","c","n">>)}

Endpoints ==
    {UsbPort(sn, p, m) : sn \in SerialNumbers, p \in Products, m \in Manufacturers}
    \cup {OtherPort}

RECURSIVE SeqsUpTo(_, _)
SeqsUpTo(S, n) ==
    IF n = 0 THEN {<<>>}
    ELSE LET shorter == SeqsUpTo(S, n - 1)
         IN  shorter \cup {Append(s, x) : s \in {t \in shorter : Len(t) = n - 1}, x \in S}

\* Result<Vec<SerialPortInfo>> of serialport::available_ports
Enumerations(S, n) ==
    {[ok |-> FALSE]} \cup {[ok |-> TRUE, v |-> l] : l \in SeqsUpTo(S, n)}

\* Result of SerialPortBuilder::open: a port, or serialport::Error {kind, description}
OpenOutcomes ==
    {[ok |-> TRUE],
     [ok |-> FALSE, kind |-> "NoDevice", description |-> "device disappeared"],
     [ok |-> FALSE, kind |-> "Io(PermissionDenied)", description |-> "Permission denied"]}

\* the Box<dyn SerialPort> that open returns: id tells two opens apart
Port(id, port_name, baud) == [id |-> id, port_name |-> port_name, baud |-> baud]

(***************************************************************************)
(* SerialInterface::connect                                                *)
(***************************************************************************)
\* lines 105-108: the serial number is present and is the flight controller's
sn_matches(info) ==
    is_some(info.serial_number) /\ unwrap(info.serial_number) = FC_SERIAL_NUMBER

\* the product test as an `if` of its own, not the `else` of the serial-number test
product_is_slcan_any_sn(info) ==
    /\ is_some(info.product)
    /\ contains(to_lowercase(unwrap(info.product)), SLCAN_PRODUCT_KEYWORD)

\* lines 111-115: reached only when there is no serial number
product_is_slcan(info) ==
    /\ ~is_some(info.serial_number)
    /\ is_some(info.product)
    /\ contains(to_lowercase(unwrap(info.product)), SLCAN_PRODUCT_KEYWORD)

\* the manufacturer test without to_lowercase
is_airport_exact_case(info) ==
    /\ is_some(info.manufacturer)
    /\ contains(unwrap(info.manufacturer), AIRPORT_KEYWORD)

\* lines 119-120
is_airport(info) ==
    /\ is_some(info.manufacturer)
    /\ contains(to_lowercase(unwrap(info.manufacturer)), AIRPORT_KEYWORD)

\* baud without the manufacturer override
select_baud_primary(info) == BAUD

\* lines 102, 122
select_baud(info) == IF is_airport(info) THEN BAUD_AIRPORT ELSE BAUD

\* lines 100-125: correct_port
correct_port(info) == sn_matches(info) \/ product_is_slcan(info) \/ is_airport(info)

\* connection_type set to Can by the product name alone
next_connection_type_any_sn(info, ct) ==
    IF product_is_slcan_any_sn(info) THEN "Can" ELSE ct

\* lines 91, 113: connection_type lives outside the loop and is only ever set to Can
next_connection_type(info, ct) == IF product_is_slcan(info) THEN "Can" ELSE ct

\* line 121
airport_print(info) ==
    IF is_airport(info) THEN << <<"Connected via Airport">> >> ELSE <<>>

\* a failed open that prints nothing for any kind of error
open_error_print_silent(err) == <<>>

\* lines 142-156: what a failed open prints
open_error_print(err) ==
    IF err.kind = "NoDevice" THEN <<>>
    ELSE << <<"Error opening the port", err.kind, err.description>> >>

\* `continue` in place of `break`: the scan goes on with the next port
index_after_failed_open_continue(ports, i) == i + 1

\* line 158: after a failed open the loop is left
index_after_failed_open(ports, i) == Len(ports) + 1

\* lines 135-140: the value returned when open succeeds
connect_success(port, ct) == [serial_port |-> Some(port), connection_type |-> ct]

\* lines 98-162: the loop from port i on. ct is connection_type, o the outcome of
\* open, id the identity of the port an open would return; acc collects the open
\* attempts and the lines printed.
RECURSIVE scan_ports(_, _, _, _, _, _)
scan_ports(ports, i, ct, o, id, acc) ==
    IF i > Len(ports)
    THEN [ret |-> SerialInterface_default, attempts |-> acc.attempts,
          stdout |-> acc.stdout]
    ELSE
    LET info == ports[i] IN
    IF info.port_type # "UsbPort"
    THEN scan_ports(ports, i + 1, ct, o, id, acc)
    ELSE
    LET ct1  == next_connection_type(info, ct)
        out1 == acc.stdout \o airport_print(info)
    IN
    IF ~correct_port(info)
    THEN scan_ports(ports, i + 1, ct1, o, id, [acc EXCEPT !.stdout = out1])
    ELSE
    LET baud == select_baud(info)
        att  == Append(acc.attempts,
                       [port_name |-> i, baud |-> baud, timeout |-> TIMEOUT_MILIS,
                        outcome |-> o])
    IN
    IF o.ok
    THEN [ret |-> connect_success(Port(id + Len(acc.attempts), i, baud), ct1),
          attempts |-> att, stdout |-> out1]
    ELSE scan_ports(ports, index_after_failed_open(ports, i), ct1, o, id,
                    [attempts |-> att, stdout |-> out1 \o open_error_print(o)])

\* lines 90-163
connect(ports_result, o, id) ==
    IF ~ports_result.ok
    THEN [ret |-> SerialInterface_default, attempts |-> <<>>, stdout |-> <<>>]
    ELSE scan_ports(ports_result.v, 1, ConnectionType_default, o, id,
                    [attempts |-> <<>>, stdout |-> <<>>])

(***************************************************************************)
(* The protocol catalogue of the anyleaf_usb crate, which lib.rs imports    *)
(* (line 21) and which is not part of this source tree.                    *)
(***************************************************************************)
MSG_START == 69

DEVICE_CODE_PC == 1

PAYLOAD_START_I == 3

CRC_POLY == 171

\* a u8 holds 0..255
U8 == 256

RECURSIVE xor_bits(_, _, _)
xor_bits(a, b, n) ==
    IF n = 0 THEN 0
    ELSE ((a + b) % 2) + 2 * xor_bits(a \div 2, b \div 2, n - 1)

\* a ^ b on u8
xor(a, b) == xor_bits(a, b, 8)

RECURSIVE crc_bits(_, _)
crc_bits(crc, j) ==
    IF j = 0 THEN crc
    ELSE crc_bits(xor((crc * 2) % U8, IF crc >= 128 THEN CRC_POLY ELSE 0), j - 1)

\* anyleaf_usb::CRC_LUT
CRC_LUT == [i \in 0..(U8 - 1) |-> crc_bits(i, 8)]

\* The loop of calc_crc over bytes lo..hi of data, entered with crc (a u8): every
\* byte does crc = lut[crc ^ data[i]]. The range is halved, first half first, and
\* crc is looked at on entry, only to keep the evaluation shallow.
RECURSIVE crc_loop(_, _, _, _, _)
crc_loop(lut, data, lo, hi, crc) ==
    IF crc \in 0..(U8 - 1) /\ lo <= hi
    THEN IF lo = hi THEN lut[xor(crc, data[lo])]
         ELSE LET mid   == (lo + hi) \div 2
                  first == crc_loop(lut, data, lo, mid, crc)
              IN  crc_loop(lut, data, mid + 1, hi, first)
    ELSE crc

\* anyleaf_usb::calc_crc(lut, data, size): runs over the first `size` bytes of data
calc_crc(lut, data, size) == crc_loop(lut, data, 1, size, 0)

\* a type implementing anyleaf_usb::MessageType: val() and payload_size()
MessageType(val, payload_size) == [val |-> val, payload_size |-> payload_size]

(***************************************************************************)
(* send_payload and send_cmd                                               *)
(***************************************************************************)
\* `x as u8`
as_u8(x) == x % U8

\* Outcome of Write::write_all on the port: everything written, or an io::Error
\* after `sent` bytes went out.
WriteOutcomes ==
    {[ok |-> TRUE],
     [ok |-> FALSE, kind |-> "TimedOut", sent |-> 0],
     [ok |-> FALSE, kind |-> "BrokenPipe", sent |-> 1]}

\* the payload size read from a length byte at the start of the payload, plus
\* one, for message type 200
payload_size_from_length_field(msg_type, payload) ==
    IF msg_type.val = 200 /\ Len(payload) >= 1
    THEN payload[1] + 1
    ELSE msg_type.payload_size

\* line 216: the payload size is what the message type declares; the payload is
\* not looked at
payload_size_of(msg_type, payload) == msg_type.payload_size

\* lines 219-226: the buffer before the checksum is stored. Indices are 1-based
\* here, 0-based in the source.
tx_buf_before_crc(msg_type, payload, N) ==
    LET payload_size == payload_size_of(msg_type, payload) IN
    [i \in 1..N |->
        IF i = 1 THEN MSG_START
        ELSE IF i = 2 THEN DEVICE_CODE_PC
        ELSE IF i = 3 THEN msg_type.val
        ELSE IF i <= payload_size + PAYLOAD_START_I THEN payload[i - PAYLOAD_START_I]
        ELSE 0]

\* line 231: the length handed to calc_crc
crc_len(payload_size) == as_u8(payload_size + PAYLOAD_START_I)

\* lines 228-232
tx_buf_crc(buf, payload_size) ==
    calc_crc(CRC_LUT, SubSeq(buf, 1, payload_size + PAYLOAD_START_I),
             crc_len(payload_size))

\* only the slices are checked: storing the checksum past the end goes unnoticed
send_panics_slices_only(msg_type, payload, N) ==
    LET payload_size == payload_size_of(msg_type, payload) IN
    \/ N < PAYLOAD_START_I
    \/ payload_size + PAYLOAD_START_I > N
    \/ payload_size > Len(payload)

\* lines 219-232: the indexing of tx_buf and payload panics unless both are long enough
send_panics(msg_type, payload, N) ==
    LET payload_size == payload_size_of(msg_type, payload) IN
    \/ N < PAYLOAD_START_I
    \/ payload_size + PAYLOAD_START_I > N
    \/ payload_size > Len(payload)
    \/ payload_size + PAYLOAD_START_I >= N

\* line 234: the buffer handed to write_all
bytes_to_write(tx_buf, payload_size) == tx_buf

\* send_payload with a second write_all after a failed one
send_payload_retry(msg_type, payload, N, w) ==
    IF send_panics(msg_type, payload, N)
    THEN [result |-> "panic", writes |-> <<>>, wire |-> <<>>]
    ELSE
    LET payload_size == payload_size_of(msg_type, payload)
        buf0   == tx_buf_before_crc(msg_type, payload, N)
        tx_buf == [buf0 EXCEPT ![payload_size + PAYLOAD_START_I + 1] =
                                   tx_buf_crc(buf0, payload_size)]
        handed == bytes_to_write(tx_buf, payload_size)
    IN  [result  |-> IF w.ok THEN "ok" ELSE "err",
         err     |-> IF w.ok THEN None ELSE Some(w.kind),
         payload_size |-> payload_size,
         crc_len |-> crc_len(payload_size),
         writes  |-> IF w.ok THEN <<handed>> ELSE <<handed, handed>>,
         wire    |-> IF w.ok THEN handed
                     ELSE SubSeq(handed, 1, w.sent) \o SubSeq(handed, 1, w.sent)]

\* lines 210-237. w is the outcome of write_all.
send_payload(msg_type, payload, N, w) ==
    IF send_panics(msg_type, payload, N)
    THEN [result |-> "panic", writes |-> <<>>, wire |-> <<>>]
    ELSE
    LET payload_size == payload_size_of(msg_type, payload)
        buf0   == tx_buf_before_crc(msg_type, payload, N)
        tx_buf == [buf0 EXCEPT ![payload_size + PAYLOAD_START_I + 1] =
                                   tx_buf_crc(buf0, payload_size)]
        handed == bytes_to_write(tx_buf, payload_size)
    IN  [result  |-> IF w.ok THEN "ok" ELSE "err",
         err     |-> IF w.ok THEN None ELSE Some(w.kind),
         payload_size |-> payload_size,
         crc_len |-> crc_len(payload_size),
         writes  |-> <<handed>>,
         wire    |-> IF w.ok THEN handed ELSE SubSeq(handed, 1, w.sent)]

\* lines 202-204
send_cmd(msg_type, w) == send_payload(msg_type, <<>>, 4, w)

(***************************************************************************)
(* StateCommon                                                             *)
(***************************************************************************)
\* get_port reporting another io::ErrorKind
get_port_not_found(sp) ==
    IF is_some(sp)
    THEN [ok |-> TRUE, port |-> unwrap(sp)]
    ELSE [ok |-> FALSE, kind |-> "NotFound", msg |-> "No device connected"]

\* lines 186-198
get_port(sp) ==
    IF is_some(sp)
    THEN [ok |-> TRUE, port |-> unwrap(sp)]
    ELSE [ok |-> FALSE, kind |-> "NotConnected", msg |-> "No device connected"]

\* a panic unwinds the thread that owns the state: nothing runs after it
Panicked == op.name \in {"send_payload", "send_cmd"} /\ op.result = "panic"

Running == now < MaxSteps /\ ~Panicked

\* impl Default for StateCommon, lines 175-184
InitState ==
    /\ connection_status = ConnectionStatus_default
    /\ serial_port = SerialInterface_default.serial_port
    /\ connection_type = SerialInterface_default.connection_type
    /\ now = 0
    /\ last_query = now
    /\ last_response = now
    /\ n_enum = 0
    /\ n_open = 0
    /\ op = [name |-> "default"]

\* Connect as it would be if adopting a port also set the status.
ConnectSetsStatus(ports_result, o) ==
    /\ Running
    /\ LET r == connect(ports_result, o, n_open + 1) IN
       /\ serial_port' = r.ret.serial_port
       /\ connection_type' = r.ret.connection_type
       /\ connection_status' =
              IF is_some(r.ret.serial_port) THEN "Connected" ELSE "NotConnected"
       /\ n_enum' = n_enum + 1
       /\ n_open' = n_open + Len(r.attempts)
       /\ op' = [name |-> "connect", ports |-> ports_result, ret |-> r.ret,
                 attempts |-> r.attempts, stdout |-> r.stdout]
    /\ now' = now + 1
    /\ UNCHANGED <<last_query, last_response>>

\* `state.interface = SerialInterface::connect()`: the one way a StateCommon comes
\* to hold a port. connect builds a SerialInterface and nothing else: it cannot
\* reach connection_status or the timestamps.
Connect(ports_result, o) ==
    /\ Running
    /\ LET r == connect(ports_result, o, n_open + 1) IN
       /\ serial_port' = r.ret.serial_port
       /\ connection_type' = r.ret.connection_type
       /\ n_enum' = n_enum + 1
       /\ n_open' = n_open + Len(r.attempts)
       /\ op' = [name |-> "connect", ports |-> ports_result, ret |-> r.ret,
                 attempts |-> r.attempts, stdout |-> r.stdout]
    /\ now' = now + 1
    /\ UNCHANGED <<connection_status, last_query, last_response>>

\* get_port as it would be if it ran connect whenever want_connect(serial_port).
GetPortConnecting(world, reconnect) ==
    /\ Running
    /\ LET r  == connect(world.ports, world.open, n_open + 1)
           sp == IF reconnect THEN r.ret.serial_port ELSE serial_port
       IN
       /\ serial_port' = sp
       /\ connection_type' = IF reconnect THEN r.ret.connection_type ELSE connection_type
       /\ n_enum' = IF reconnect THEN n_enum + 1 ELSE n_enum
       /\ n_open' = IF reconnect THEN n_open + Len(r.attempts) ELSE n_open
       /\ op' = [name |-> "get_port", ret |-> get_port(sp), world |-> world]
    /\ now' = now + 1
    /\ UNCHANGED <<connection_status, last_query, last_response>>

\* get_port that discovers and opens when no port is held
GetPortLazy(world) == GetPortConnecting(world, ~is_some(serial_port))

\* get_port that discovers and opens again although a port is held
GetPortReopens(world) == GetPortConnecting(world, is_some(serial_port))

\* StateCommon::get_port. world is what the transport would enumerate and how an
\* open would end at this moment; get_port does not look at it.
GetPort(world) ==
    /\ Running
    /\ op' = [name |-> "get_port", ret |-> get_port(serial_port), world |-> world]
    /\ now' = now + 1
    /\ UNCHANGED <<connection_status, serial_port, connection_type, last_query,
                   last_response, n_enum, n_open>>

\* SendPayload as it would be if a send that reaches write_all stamped last_query
SendPayloadStamps(msg_type, payload, N, w) ==
    /\ Running
    /\ is_some(serial_port)
    /\ LET r == send_payload(msg_type, payload, N, w) IN
       /\ op' = [name |-> "send_payload", msg_type |-> msg_type, payload |-> payload,
                 N |-> N, at |-> now + 1] @@ r
       /\ last_query' = IF r.result = "panic" THEN last_query ELSE now + 1
    /\ now' = now + 1
    /\ UNCHANGED <<connection_status, serial_port, connection_type,
                   last_response, n_enum, n_open>>

\* send_payload::<T, N>(msg_type, payload, state.get_port()?)
SendPayload(msg_type, payload, N, w) ==
    /\ Running
    /\ is_some(serial_port)
    /\ op' = [name |-> "send_payload", msg_type |-> msg_type, payload |-> payload,
              N |-> N, at |-> now + 1] @@ send_payload(msg_type, payload, N, w)
    /\ now' = now + 1
    /\ UNCHANGED <<connection_status, serial_port, connection_type, last_query,
                   last_response, n_enum, n_open>>

\* send_cmd(msg_type, state.get_port()?)
SendCmd(msg_type, w) ==
    /\ Running
    /\ is_some(serial_port)
    /\ op' = [name |-> "send_cmd", msg_type |-> msg_type, payload |-> <<>>,
              N |-> 4, at |-> now + 1] @@ send_cmd(msg_type, w)
    /\ now' = now + 1
    /\ UNCHANGED <<connection_status, serial_port, connection_type, last_query,
                   last_response, n_enum, n_open>>

(***************************************************************************)
(* Specifications                                                          *)
(***************************************************************************)
DirectPort == UsbPort(Some(<<"A","N">>), None, None)

SlcanPort ==
    UsbPort(None, Some(<<"S","L","C","A","N","-","A","d","a","p","t","e","r">>), None)

\* What the transport shows at one moment: the enumeration and how an open ends.
World(ports_result, o) == [ports |-> ports_result, open |-> o]

ScenarioWorlds ==
    {World(pr, o) :
        pr \in {[ok |-> FALSE], [ok |-> TRUE, v |-> <<>>],
                [ok |-> TRUE, v |-> <<DirectPort>>],
                [ok |-> TRUE, v |-> <<OtherPort, SlcanPort>>]},
        o \in OpenOutcomes}

\* payload bytes that differ from place to place
PayloadBytes(len, seed) == [i \in 1..len |-> (seed * i) % U8]

ScenarioMessages == {MessageType(2, 0), MessageType(7, 2)}

Init == InitState

\* Spec: a StateCommon used by its application, MaxSteps operations long.
Next ==
    \/ \E w \in ScenarioWorlds : Connect(w.ports, w.open)
    \/ \E w \in ScenarioWorlds : GetPort(w)
    \/ \E m \in ScenarioMessages, w \in WriteOutcomes :
           SendPayload(m, PayloadBytes(m.payload_size, 7),
                       m.payload_size + PAYLOAD_START_I + 1, w)
    \/ \E m \in ScenarioMessages, w \in WriteOutcomes : SendCmd(m, w)

Spec == Init /\ [][Next]_vars

\* SpecConnect: one call of connect on every enumeration of up to MaxPorts ports.
NextConnect ==
    /\ now = 0
    /\ \E pr \in Enumerations(Endpoints, MaxPorts), o \in OpenOutcomes : Connect(pr, o)

SpecConnect == Init /\ [][NextConnect]_vars

\* payload_size() values: small ones, and those around the point where
\* payload_size + PAYLOAD_START_I no longer fits a u8
SendSizes == (0..MaxPayload) \cup {U8 - 4, U8 - 3, U8 - 2}

SendMessages == {MessageType(v, s) : v \in {2, 200}, s \in SendSizes}

\* the const generic N: one short of, equal to and one more than the frame
SendCapacities(m) ==
    {m.payload_size + PAYLOAD_START_I + 1 + d : d \in {-1, 0, 1}}

\* payload slices: one byte short of, equal to and one byte longer than payload_size
SendPayloads(m) ==
    {PayloadBytes(len, seed) :
        len \in {l \in {m.payload_size - 1, m.payload_size, m.payload_size + 1} : l >= 0},
        seed \in {7, 201}}

\* SpecSend: a port is opened, then one send on every message, payload and capacity.
NextSend ==
    \/ now = 0 /\ Connect([ok |-> TRUE, v |-> <<DirectPort>>], [ok |-> TRUE])
    \/ /\ now = 1
       /\ \E m \in SendMessages, w \in WriteOutcomes :
              \E payload \in SendPayloads(m), N \in SendCapacities(m) :
                  SendPayload(m, payload, N, w)
    \/ now = 1 /\ \E m \in SendMessages, w \in WriteOutcomes : SendCmd(m, w)

SpecSend == Init /\ [][NextSend]_vars

(***************************************************************************)
(* Link State: claims C1 to C4 (under Spec)                                *)
(***************************************************************************)
\* whether connect, run on world w, would return a port
WouldConnect(w) == is_some(connect(w.ports, w.open, 1).ret.serial_port)

\* C1 as stated: in every reachable state the status is Connected if and only if
\* a port is held.
C1_StatusIffChannel == (connection_status = "Connected") <=> is_some(serial_port)

\* C1 as amended: connect, get_port and send never write the status: in every
\* reachable state it is NotConnected, whether or not a port is held.
C1_StatusStaysNotConnected == connection_status = "NotConnected"

\* C1 witness: a port is held, it has been used, and the status is NotConnected
C1_Witness ==
    /\ is_some(serial_port)
    /\ op.name = "send_payload" /\ op.result = "ok"
    /\ connection_status = "NotConnected"

\* C2 as stated: get_port on a state that holds no port discovers and opens: when
\* a matching endpoint is there and opens, the call returns the port and the state
\* holds it; it fails with NotConnected only when discovery gave no connection.
C2_GetPortDiscovers ==
    [][(op'.name = "get_port" /\ ~is_some(serial_port)) =>
          /\ WouldConnect(op'.world) => (op'.ret.ok /\ is_some(serial_port'))
          /\ ~op'.ret.ok => (op'.ret.kind = "NotConnected" /\ ~WouldConnect(op'.world))
      ]_vars

\* C2 as amended: get_port on a state that holds no port does not discover or
\* open anything: it fails with NotConnected and leaves the state as it was, also
\* when a matching endpoint is there and would open.
C2_GetPortNeverDiscovers ==
    [][(op'.name = "get_port" /\ ~is_some(serial_port)) =>
          /\ ~op'.ret.ok /\ op'.ret.kind = "NotConnected"
          /\ n_enum' = n_enum /\ n_open' = n_open
          /\ ~is_some(serial_port')
          /\ UNCHANGED <<connection_status, connection_type, last_query, last_response>>
      ]_vars

\* C2 witness: get_port has failed although connect would have returned a port
C2_Witness ==
    /\ op.name = "get_port" /\ ~op.ret.ok
    /\ ~is_some(serial_port)
    /\ WouldConnect(op.world)

\* C3: while a port is held, get_port returns that port, keeps it, and neither
\* enumerates nor opens.
C3_HeldPortReturned ==
    [][(op'.name = "get_port" /\ is_some(serial_port)) =>
          /\ op'.ret.ok /\ op'.ret.port = unwrap(serial_port)
          /\ serial_port' = serial_port
          /\ n_enum' = n_enum /\ n_open' = n_open
      ]_vars

\* C3 witness: after one successful discovery, a later get_port has returned the
\* held port although another endpoint could have been opened
C3_Witness ==
    /\ op.name = "get_port" /\ op.ret.ok
    /\ op.ret.port = unwrap(serial_port)
    /\ n_enum = 1 /\ n_open = 1 /\ now = 3
    /\ WouldConnect(op.world)

\* a StateCommon as default() made it, on which connect was never run
Fresh ==
    /\ n_enum = 0
    /\ ~is_some(serial_port)
    /\ connection_status = "NotConnected"

\* C4: on a fresh state, with no endpoint to enumerate, get_port fails with
\* NotConnected and leaves the state fresh, however often it is called.
C4_FreshGetPortFails ==
    [][(op'.name = "get_port" /\ Fresh /\ op'.world.ports = [ok |-> TRUE, v |-> <<>>]) =>
          /\ ~op'.ret.ok /\ op'.ret.kind = "NotConnected"
          /\ Fresh'
          /\ UNCHANGED <<connection_status, serial_port, connection_type,
                         last_query, last_response>>
      ]_vars

\* C4 witness: the second of two get_port calls on a fresh state with no endpoints
C4_Witness ==
    /\ op.name = "get_port" /\ ~op.ret.ok
    /\ op.world.ports = [ok |-> TRUE, v |-> <<>>]
    /\ Fresh /\ now = 2

(***************************************************************************)
(* Connection Manager: claims C5 to C9 (under SpecConnect)                 *)
(***************************************************************************)
\* the last operation was connect and the enumeration succeeded
Connected_op == op.name = "connect" /\ op.ports.ok

\* the open attempts of the last connect on port i
AttemptsOn(i) == {k \in 1..Len(op.attempts) : op.attempts[k].port_name = i}

\* port i was reached: no earlier port was opened
Reached(i) == \A k \in 1..Len(op.attempts) : op.attempts[k].port_name >= i

\* connect returned the port it opened at place i
Returned(i) == is_some(op.ret.serial_port) /\ unwrap(op.ret.serial_port).port_name = i

SlcanProductName == Some(<<"S","L","C","A","N","-","A","d","a","p","t","e","r">>)

WchManufacturer == Some(<<"W","C","H",".","c","n">>)

\* C5: a USB endpoint with serial number "AN" that the scan reaches is opened,
\* and when the open succeeds the connection is labelled Usb, whatever its
\* product and manufacturer and whatever came before it.
C5_SerialMatchIsDirect ==
    Connected_op =>
        \A i \in 1..Len(op.ports.v) :
            LET info == op.ports.v[i] IN
            (info.port_type = "UsbPort" /\ info.serial_number = Some(<<"A","N">>)
                /\ Reached(i)) =>
                /\ AttemptsOn(i) # {}
                /\ \A k \in AttemptsOn(i) : op.attempts[k].outcome.ok =>
                       (Returned(i) /\ op.ret.connection_type = "Usb")

\* C5 witness: the second port has serial number "AN", the bridge keyword in its
\* product and a manufacturer; it was opened and labelled Usb
C5_Witness ==
    /\ Connected_op
    /\ Len(op.ports.v) = 2
    /\ op.ports.v[1].port_type = "UsbPort"
    /\ op.ports.v[2] = UsbPort(Some(<<"A","N">>), SlcanProductName, WchManufacturer)
    /\ Returned(2)
    /\ op.ret.connection_type = "Usb"

\* C6 as stated: a USB endpoint whose serial number is not "AN" (absent or
\* different) and whose product name holds "slcan" in any letter case, once the
\* scan reaches it, is opened, and when the open succeeds the connection is
\* labelled Can.
C6_ProductMatchIsBridged ==
    Connected_op =>
        \A i \in 1..Len(op.ports.v) :
            LET info == op.ports.v[i] IN
            (info.port_type = "UsbPort" /\ info.serial_number # Some(<<"A","N">>)
                /\ info.product = SlcanProductName /\ Reached(i)) =>
                /\ AttemptsOn(i) # {}
                /\ \A k \in AttemptsOn(i) : op.attempts[k].outcome.ok =>
                       (Returned(i) /\ op.ret.connection_type = "Can")

\* C7: a port with serial number "AN" is opened at 9600 baud when its
\* manufacturer holds "wch" and at 115200 otherwise; its kind is Usb either way.
C7_AirportBaudOnDirect ==
    Connected_op =>
        \A k \in 1..Len(op.attempts) :
            LET a    == op.attempts[k]
                info == op.ports.v[a.port_name]
            IN  info.serial_number = Some(<<"A","N">>) =>
                /\ a.baud = (IF info.manufacturer = WchManufacturer THEN 9600 ELSE 115200)
                /\ a.outcome.ok =>
                       /\ unwrap(op.ret.serial_port).baud = a.baud
                       /\ op.ret.connection_type = "Usb"

\* C7 witness: a port with serial number "AN" and a WCH manufacturer was opened
\* at 9600 baud and is labelled Usb
C7_Witness ==
    /\ Connected_op
    /\ Len(op.attempts) = 1
    /\ op.ports.v[op.attempts[1].port_name].serial_number = Some(<<"A","N">>)
    /\ op.ports.v[op.attempts[1].port_name].manufacturer = WchManufacturer
    /\ is_some(op.ret.serial_port)
    /\ unwrap(op.ret.serial_port).baud = 9600
    /\ op.ret.connection_type = "Usb"

\* port i of the last enumeration is a USB port that connect takes for its device
IsMatch(i) == op.ports.v[i].port_type = "UsbPort" /\ correct_port(op.ports.v[i])

\* C8: one connect opens at most one port, and that port is the first match of
\* the enumeration.
C8_FirstMatchOnly ==
    Connected_op =>
        /\ Len(op.attempts) <= 1
        /\ \A k \in 1..Len(op.attempts) :
               LET i == op.attempts[k].port_name IN
               IsMatch(i) /\ \A j \in 1..(i - 1) : ~IsMatch(j)
        /\ is_some(op.ret.serial_port) =>
               (Len(op.attempts) = 1 /\ Returned(op.attempts[1].port_name))

\* C8 witness: two matching ports, the open of the first failed, the second was
\* left alone
C8_Witness ==
    /\ Connected_op
    /\ Len(op.ports.v) = 2 /\ IsMatch(1) /\ IsMatch(2)
    /\ Len(op.attempts) = 1
    /\ op.attempts[1].port_name = 1
    /\ ~op.attempts[1].outcome.ok

\* the open of the last connect failed with a kind other than NoDevice
OpenFault ==
    /\ Connected_op
    /\ Len(op.attempts) >= 1
    /\ ~op.attempts[1].outcome.ok
    /\ op.attempts[1].outcome.kind # "NoDevice"

\* the open of the last connect failed with NoDevice
OpenNoDevice ==
    /\ Connected_op
    /\ Len(op.attempts) >= 1
    /\ ~op.attempts[1].outcome.ok
    /\ op.attempts[1].outcome.kind = "NoDevice"

\* C9 as stated: after an open fault the value connect returns differs from the
\* one it returns when there is no device, so that the caller can tell them apart.
C9_FaultReturned == OpenFault => op.ret # SerialInterface_default

\* C9 as amended: after an open fault connect prints the error's kind and
\* description and returns the same default value as for a missing device;
\* NoDevice prints nothing.
C9_FaultPrintedOnly ==
    /\ OpenFault =>
          /\ op.ret = SerialInterface_default
          /\ Len(op.stdout) >= 1
          /\ op.stdout[Len(op.stdout)] =
                 <<"Error opening the port", op.attempts[1].outcome.kind,
                   op.attempts[1].outcome.description>>
    /\ OpenNoDevice =>
          /\ op.ret = SerialInterface_default
          /\ \A k \in 1..Len(op.stdout) : op.stdout[k] = <<"Connected via Airport">>

\* C9 witness: an open failed with permission denied
C9_Witness ==
    /\ OpenFault
    /\ op.attempts[1].outcome.kind = "Io(PermissionDenied)"
    /\ op.ret = SerialInterface_default

(***************************************************************************)
(* Frame Codec: claim C10 (under SpecSend)                                 *)
(***************************************************************************)
\* the last operation was a send that went as far as write_all
Sent == op.name \in {"send_payload", "send_cmd"} /\ op.result # "panic"

\* C10 as stated: the buffer handed to the port starts with START, the PC device
\* code and the message type, then holds the first payload_size payload bytes,
\* then the checksum of all the bytes before it.
C10_WireLayout ==
    Sent =>
        LET b  == op.writes[1]
            ps == op.msg_type.payload_size
        IN  /\ Len(b) >= ps + 4
            /\ b[1] = MSG_START
            /\ b[2] = DEVICE_CODE_PC
            /\ b[3] = op.msg_type.val
            /\ \A k \in 1..ps : b[3 + k] = op.payload[k]
            /\ b[ps + 4] = calc_crc(CRC_LUT, SubSeq(b, 1, ps + 3), ps + 3)

(***************************************************************************)
(* Frame Codec: claims C11, C12, C14, C16, C17 (under SpecSend)            *)
(***************************************************************************)
\* the last operation was a send, whether or not it got as far as write_all
SendOp == op.name \in {"send_payload", "send_cmd"}

\* C11: a send whose capacity N is less than 3 + payload_size + 1 fails (it
\* panics) and hands nothing to the port: no write_all, no byte on the wire.
C11_ShortCapacityRejected ==
    (SendOp /\ op.N < PAYLOAD_START_I + op.msg_type.payload_size + 1) =>
        /\ op.result = "panic"
        /\ op.writes = <<>>
        /\ op.wire = <<>>

\* C11 witness: a send with a payload long enough and a capacity one byte short
\* has panicked
C11_Witness ==
    /\ op.name = "send_payload"
    /\ op.msg_type.payload_size >= 1
    /\ Len(op.payload) = op.msg_type.payload_size
    /\ op.N = PAYLOAD_START_I + op.msg_type.payload_size
    /\ op.result = "panic"

\* C12 as stated: every buffer handed to the port is 3 + payload_size + 1 bytes
\* long, whatever the capacity N of the call.
C12_FrameLengthExact ==
    Sent => \A k \in 1..Len(op.writes) :
                Len(op.writes[k]) = PAYLOAD_START_I + op.msg_type.payload_size + 1

\* C14 as stated, with message type 200 taken for the reserved variable-size
\* type: its payload size is the value of a length byte inside the payload plus
\* a constant that is not negative; every other type uses its declared size.
C14_VariableSizeFromPayload ==
    Sent =>
        IF op.msg_type.val = 200 /\ Len(op.payload) >= 1
        THEN \E off \in 1..Len(op.payload) : op.payload_size >= op.payload[off]
        ELSE op.payload_size = op.msg_type.payload_size

\* C14 as amended: for every message type the payload size is the declared
\* one, whatever the payload holds: a send with room for the declared size goes
\* through, copies that many payload bytes and leaves the rest of the buffer 0.
C14_DeclaredSizeUsed ==
    SendOp =>
        LET ps == op.msg_type.payload_size IN
        (op.N >= PAYLOAD_START_I + ps + 1 /\ Len(op.payload) >= ps) =>
            /\ op.result # "panic"
            /\ op.payload_size = ps
            /\ \A k \in 1..ps : op.writes[1][PAYLOAD_START_I + k] = op.payload[k]
            /\ \A i \in (PAYLOAD_START_I + ps + 2)..op.N : op.writes[1][i] = 0

\* C14 witness: a send of type 200 whose first payload byte plus one is not the
\* declared size, and which carried the declared number of bytes
C14_Witness ==
    /\ Sent
    /\ op.msg_type.val = 200
    /\ op.msg_type.payload_size = 2
    /\ Len(op.payload) = 3
    /\ op.payload[1] + 1 # op.msg_type.payload_size
    /\ op.payload_size = 2

\* C16 as stated: the length handed to the checksum function is 3 + payload_size
\* for every payload size.
C16_ChecksumLengthFull ==
    Sent => op.crc_len = PAYLOAD_START_I + op.msg_type.payload_size

\* C17: one send calls write_all at most once; when the write fails the send
\* returns that error and what went out is no more than a part of the one buffer.
C17_SingleWrite ==
    SendOp =>
        /\ Len(op.writes) <= 1
        /\ op.result = "err" =>
               /\ Len(op.writes) = 1
               /\ is_some(op.err)
               /\ Len(op.wire) < Len(op.writes[1])
               /\ op.wire = SubSeq(op.writes[1], 1, Len(op.wire))
        /\ op.result = "ok" => (op.err = None /\ op.wire = op.writes[1])

\* C17 witness: a write failed after one byte and the send returned the error
C17_Witness ==
    /\ SendOp
    /\ op.result = "err"
    /\ op.err = Some("BrokenPipe")
    /\ Len(op.wire) = 1
    /\ Len(op.writes) = 1

(***************************************************************************)
(* Link State: claim C13 (under Spec)                                      *)
(***************************************************************************)
\* C13 as stated: after a send that reached write_all, last_query is the time
\* of that send.
C13_SendStampsLastQuery == Sent => last_query = op.at

\* C13 as amended: no send writes last_query, whether its write succeeds or
\* fails: it keeps the value StateCommon::default gave it.
C13_SendLeavesLastQuery ==
    [][(op'.name \in {"send_payload", "send_cmd"}) =>
          (last_query' = last_query /\ last_query' = 0)]_vars

\* C13 witness: a send has reached write_all later than the time in last_query
C13_Witness ==
    /\ Sent
    /\ Len(op.writes) = 1
    /\ last_query < op.at

(***************************************************************************)
(* SerialInterface::connect: claims C15, C18, C19, C20 (under SpecConnect) *)
(***************************************************************************)
\* C15: after the open of a matched port fails with a kind other than NoDevice,
\* connect opens no port that comes later in the enumeration and returns
\* without a port.
C15_FaultEndsScan ==
    OpenFault =>
        /\ ~is_some(op.ret.serial_port)
        /\ \A j \in (op.attempts[1].port_name + 1)..Len(op.ports.v) : AttemptsOn(j) = {}

\* C15 witness: the open of the first port failed with permission denied and
\* the second port is a match that was left alone
C15_Witness ==
    /\ OpenFault
    /\ Len(op.ports.v) = 2
    /\ op.attempts[1].port_name = 1
    /\ IsMatch(2)
    /\ op.ret = SerialInterface_default

\* C18: a USB port whose manufacturer holds "wch" in any letter case, once the
\* scan reaches it, is opened at BAUD_AIRPORT whatever its serial number and
\* product; when the open succeeds it is the port returned, labelled Usb if it
\* has a serial number or its product lacks the bridge keyword.
C18_AirportAloneMatches ==
    Connected_op =>
        \A i \in 1..Len(op.ports.v) :
            LET info == op.ports.v[i] IN
            (info.port_type = "UsbPort" /\ info.manufacturer = WchManufacturer
                /\ Reached(i)) =>
                /\ AttemptsOn(i) # {}
                /\ \A k \in AttemptsOn(i) :
                       /\ op.attempts[k].baud = BAUD_AIRPORT
                       /\ op.attempts[k].outcome.ok =>
                              /\ Returned(i)
                              /\ unwrap(op.ret.serial_port).baud = BAUD_AIRPORT
                              /\ (is_some(info.serial_number)
                                     \/ info.product # SlcanProductName) =>
                                     op.ret.connection_type = "Usb"

\* C18 witness: a port with another serial number, a product without the
\* keyword and a WCH manufacturer was opened at BAUD_AIRPORT and labelled Usb
C18_Witness ==
    /\ Connected_op
    /\ Len(op.attempts) = 1
    /\ op.ports.v[op.attempts[1].port_name] =
           UsbPort(Some(<<"A","X">>), Some(<<"G","P","S">>), WchManufacturer)
    /\ Returned(op.attempts[1].port_name)
    /\ unwrap(op.ret.serial_port).baud = BAUD_AIRPORT
    /\ op.ret.connection_type = "Usb"

\* C19: the kind connect returns depends on the opened port alone: with a port
\* it is Can exactly when that port has no serial number and a product holding
\* "slcan"; without a port (enumeration error, no match, failed open) it is Usb.
C19_KindFromOpenedPort ==
    op.name = "connect" =>
        IF is_some(op.ret.serial_port)
        THEN LET info == op.ports.v[unwrap(op.ret.serial_port).port_name] IN
             (op.ret.connection_type = "Can") <=>
                 (info.serial_number = None /\ info.product = SlcanProductName)
        ELSE op.ret.connection_type = "Usb"

\* C19 witness: the first port has the keyword in its product next to another
\* serial number and was passed over; the second port was opened and labelled Usb
C19_Witness ==
    /\ Connected_op
    /\ Len(op.ports.v) = 2
    /\ op.ports.v[1] = UsbPort(Some(<<"A","X">>), SlcanProductName, None)
    /\ op.ports.v[2].port_type = "UsbPort"
    /\ op.ports.v[2].serial_number = Some(<<"A","N">>)
    /\ Returned(2)
    /\ op.ret.connection_type = "Usb"

\* C20: one connect calls open at most once; a NoDevice failure on the first
\* match ends the scan as any other failure does, and connect returns the
\* default value without a port.
C20_OneOpenAttempt ==
    op.name = "connect" =>
        /\ Len(op.attempts) <= 1
        /\ n_open <= n_enum
        /\ OpenNoDevice => op.ret = SerialInterface_default

\* C20 witness: the open of the first port failed with NoDevice and the second
\* port is a match that was left alone
C20_Witness ==
    /\ OpenNoDevice
    /\ Len(op.ports.v) = 2
    /\ op.attempts[1].port_name = 1
    /\ IsMatch(2)
    /\ Len(op.attempts) = 1

====
